---- MODULE Spec2Model ----
(***************************************************************************)
(* Model of gitconfig_helper.py: cleanup_branches (branch classification   *)
(* and deletion around an optional switch to main) and switch_to_main      *)
(* (fetch, dirty check, checkout, pull, conflict detection).               *)
(*                                                                         *)
(* Text produced by git is modelled as sequences of atoms: an atom is a    *)
(* piece of text that the program's substring tests either match whole or  *)
(* not at all ("[origin/", ": gone]", "UU", a branch name, ...).           *)
(***************************************************************************)
EXTENDS Naturals, Sequences, FiniteSets

\* Number of local branches besides main that a repository may hold.
NumBranches == 2

\* Number of times the cleanup command is run in succession.
MaxRuns == 2

\* The literal "main" of the checkout and of the comparison with current_branch.
TRUNK == "main"

\* Names of the other local branches, in the (alphabetical) order git lists them.
BranchPool == <<"feature-a", "feature-b", "feature-c", "feature-d">>

Names == {BranchPool[i] : i \in 1..NumBranches}

AllNames == Names \cup {TRUNK}

\* git lists branches sorted by name: feature-* before main.
ListingOrder == [i \in 1..(NumBranches + 1) |->
                    IF i <= NumBranches THEN BranchPool[i] ELSE TRUNK]

Range(s) == {s[i] : i \in 1..Len(s)}

VARIABLES
    branches,           \* repository: local branches that exist
    head,               \* repository: the checked-out branch
    info,               \* repository: per branch, upstream remote and tip subject
    gone,               \* repository: branches whose remote-tracking ref is pruned
    force,              \* cleanup_branches(force)
    pc,                 \* position in the running function
    current_branch,     \* local of both functions
    switched_branch,    \* local of cleanup_branches
    branches_before,    \* local of cleanup_branches
    listing,            \* result_vv.stdout of cleanup_branches, as lines of atoms
    branches_to_delete, \* local of cleanup_branches
    next_delete,        \* position of the deletion loop in branches_to_delete
    deleted_branches,   \* local of cleanup_branches
    calls,              \* the git commands issued by this run, in order
    run,                \* number of the current run of the command
    outcome,            \* how the run ended
    prior_clean,        \* the earlier runs fetched and deleted without a failure
    worktree,           \* repository: what git status --porcelain prints
    result_status,      \* result_status.stdout of switch_to_main
    returned            \* the values switch_to_main has returned

vars == <<branches, head, info, gone, force, pc, current_branch, switched_branch,
          branches_before, listing, branches_to_delete, next_delete,
          deleted_branches, calls, run, outcome, prior_clean, worktree,
          result_status, returned>>

repo == <<branches, head, info, gone, worktree>>

sync == <<result_status, returned>>

locals == <<current_branch, switched_branch, branches_before, listing,
            branches_to_delete, next_delete, deleted_branches>>

----------------------------------------------------------------------------
(* git branch -vv: one line per branch.                                    *)

\* A branch's configuration: the remote it tracks, whether that remote
\* branch has been deleted on the remote, and whether the subject of its tip
\* commit quotes tracking annotations (e.g. 'Handle "[origin/x: gone]"').
BranchInfos ==
    [remote : {"upstream", "origin"}, remote_deleted : BOOLEAN,
     subject : {"plain", "quoting"}]
    \cup [remote : {"none"}, remote_deleted : {FALSE}, subject : {"plain", "quoting"}]

TrunkInfos ==
    [remote : {"none", "origin"}, remote_deleted : {FALSE}, subject : {"plain"}]

\* The entry of a name that no branch bears.
NoInfo == [remote |-> "none", remote_deleted |-> FALSE, subject |-> "plain"]

TrackAtoms(b) ==
    IF info[b].remote = "none" THEN <<>>
    ELSE <<IF info[b].remote = "origin" THEN "[origin/" ELSE "[upstream/",
           IF b \in gone THEN ": gone]" ELSE "]">>

SubjectAtoms(b) ==
    IF info[b].subject = "quoting" THEN <<"fix", "[origin/", ": gone]">>
    ELSE <<"fix">>

\* "* name sha [remote/name: gone] subject" for the checked-out branch,
\* "  name sha ..." for the others.
BranchLine(b) ==
    <<IF b = head THEN "*" ELSE " ", b, "sha">> \o TrackAtoms(b) \o SubjectAtoms(b)

Exists(b) == b = TRUNK \/ b \in branches

RECURSIVE ListFrom(_)
ListFrom(i) ==
    IF i > NumBranches + 1 THEN <<>>
    ELSE (IF Exists(ListingOrder[i]) THEN <<BranchLine(ListingOrder[i])>> ELSE <<>>)
         \o ListFrom(i + 1)

GitBranchVV == ListFrom(1)

----------------------------------------------------------------------------
(* The string operations of the program, on lines of atoms.                *)

NotBlank(atom) == atom # " "

\* line.strip().split()
Split(line) == SelectSeq(line, NotBlank)

\* str.lstrip("*").strip() of one field; branch names hold no "*".
LStripStar(field) == IF field = "*" THEN "" ELSE field

\* line.strip().split()[0].lstrip("*").strip()
FirstField(line) == LStripStar(Split(line)[1])

\* pattern in line
Contains(line, pattern) == \E i \in 1..Len(line) : line[i] = pattern

\* line.startswith("*")
StartsWithStar(line) == Len(line) > 0 /\ line[1] = "*"

\* The set comprehension of lines 62-66 and 119-123.
ParseNames(lines) == {FirstField(lines[i]) : i \in 1..Len(lines)}

\* Line 126 without the difference: every branch listed before.
DeletedBranchesNoDifference(before, after) == before

\* Line 126: sorted(branches_before - branches_after), as the set it lists.
DeletedBranches(before, after) == before \ after

NotMarker(atom) == atom \notin {" ", "*"}

\* The loop body without the test of line 89, the name read past the marker.
ClassifyLineKeepingCurrent(line, f) ==
    IF SelectSeq(line, NotMarker) = <<>> THEN <<>>
    ELSE LET branch_name == SelectSeq(line, NotMarker)[1]
             has_no_remote == ~Contains(line, "[origin/")
             remote_is_gone == Contains(line, ": gone]")
         IN  IF has_no_remote THEN <<branch_name>>
             ELSE IF remote_is_gone /\ f THEN <<branch_name>>
             ELSE <<>>

\* One iteration of the loop of lines 85-107: what the line appends.
ClassifyLine(line, f) ==
    IF StartsWithStar(line) THEN <<>>
    ELSE IF Split(line) = <<>> THEN <<>>
    ELSE LET branch_name == FirstField(line)
             has_no_remote == ~Contains(line, "[origin/")
             remote_is_gone == Contains(line, ": gone]")
         IN  IF has_no_remote THEN <<branch_name>>
             ELSE IF remote_is_gone /\ f THEN <<branch_name>>
             ELSE <<>>

RECURSIVE Classify(_, _)
Classify(lines, f) ==
    IF lines = <<>> THEN <<>>
    ELSE ClassifyLine(Head(lines), f) \o Classify(Tail(lines), f)

----------------------------------------------------------------------------
(* The repository's answers to the git commands.                           *)

Call(cmd, arg, rc, stdout) == [cmd |-> cmd, arg |-> arg, rc |-> rc, stdout |-> stdout]

\* subprocess.run([...]) of a git command, its return code and what it printed.
IssueOut(cmd, arg, rc, stdout) == calls' = Append(calls, Call(cmd, arg, rc, stdout))

Issue(cmd, arg, rc) == IssueOut(cmd, arg, rc, <<>>)

\* git fetch -p from the default remote: remote-tracking refs of origin are
\* brought in line with the remote.
FetchedGone ==
    {b \in Names : info[b].remote = "origin" /\ info[b].remote_deleted}
    \cup {b \in gone : info[b].remote # "origin"}

\* git branch -D refuses a branch that does not exist or is checked out.
CanDelete(b) == b \in branches /\ b # head

\* git checkout refuses a branch that does not exist.
CanCheckout(b) == Exists(b)

----------------------------------------------------------------------------
(* cleanup_branches(force)                                                 *)

NoLocals ==
    /\ current_branch = ""
    /\ switched_branch = FALSE
    /\ branches_before = {}
    /\ listing = <<>>
    /\ branches_to_delete = <<>>
    /\ next_delete = 1
    /\ deleted_branches = {}

Init ==
    /\ branches \in SUBSET Names
    /\ head \in branches \cup {TRUNK}
    /\ info \in [AllNames -> BranchInfos \cup TrunkInfos]
    /\ info[TRUNK] \in TrunkInfos
    /\ \A b \in Names : info[b] \in BranchInfos
    /\ \A b \in Names \ branches : info[b] = NoInfo
    /\ gone \in SUBSET Names
    /\ \A b \in gone : info[b].remote_deleted
    /\ \A b \in Names : info[b].remote = "upstream" /\ info[b].remote_deleted => b \in gone
    /\ force \in BOOLEAN
    /\ pc = "verify_repo"
    /\ NoLocals
    /\ calls = <<>>
    /\ run = 1
    /\ outcome = "running"
    /\ prior_clean = TRUE
    /\ worktree = <<>>
    /\ result_status = <<>>
    /\ returned = <<>>

Finish(how) ==
    /\ pc' = "done"
    /\ outcome' = how

\* Lines 33-39: git rev-parse --git-dir, check=True, caught at line 37.
VerifyRepo ==
    /\ pc = "verify_repo"
    /\ \E rc \in {0, 1} :
        /\ Issue("rev-parse --git-dir", "", rc)
        /\ IF rc # 0 THEN Finish("not_a_repo")
           ELSE pc' = "get_current" /\ UNCHANGED outcome
    /\ UNCHANGED <<repo, locals, force, run, prior_clean, sync>>

\* Lines 41-46 (and the test of line 49): git rev-parse --abbrev-ref HEAD,
\* check=True, caught at line 160.
GetCurrentBranch ==
    /\ pc = "get_current"
    /\ \E rc \in {0, 1} :
        /\ Issue("rev-parse --abbrev-ref HEAD", "", rc)
        /\ IF rc # 0
           THEN Finish("error") /\ UNCHANGED <<current_branch, switched_branch>>
           ELSE /\ current_branch' = head
                /\ switched_branch' = FALSE
                /\ pc' = IF head # TRUNK THEN "checkout_main" ELSE "list_before"
                /\ UNCHANGED outcome
    /\ UNCHANGED <<repo, branches_before, listing, branches_to_delete, next_delete,
                   deleted_branches, force, run, prior_clean, sync>>

\* Lines 49-56 without the test of line 52.
CheckoutMainIgnoringFailure ==
    /\ pc = "checkout_main"
    /\ \E rc \in {0, 1} :
        /\ rc = 0 => CanCheckout(TRUNK)
        /\ Issue("checkout", TRUNK, rc)
        /\ head' = IF rc = 0 THEN TRUNK ELSE head
    /\ switched_branch' = TRUE
    /\ pc' = "list_before"
    /\ UNCHANGED <<branches, info, gone, worktree, current_branch, branches_before, listing,
                   branches_to_delete, next_delete, deleted_branches, force, run,
                   outcome, prior_clean, sync>>

\* Lines 49-56: git checkout main.
CheckoutMain ==
    /\ pc = "checkout_main"
    /\ \E rc \in {0, 1} :
        /\ rc = 0 => CanCheckout(TRUNK)
        /\ Issue("checkout", TRUNK, rc)
        /\ IF rc # 0
           THEN Finish("checkout_failed") /\ UNCHANGED <<head, switched_branch>>
           ELSE /\ head' = TRUNK
                /\ switched_branch' = TRUE
                /\ pc' = "list_before"
                /\ UNCHANGED outcome
    /\ UNCHANGED <<branches, info, gone, worktree, current_branch, branches_before, listing,
                   branches_to_delete, next_delete, deleted_branches, force, run,
                   prior_clean, sync>>

\* Lines 58-66: git branch -vv, check=True, caught at line 160.
ListBefore ==
    /\ pc = "list_before"
    /\ \E rc \in {0, 1} :
        /\ Issue("branch -vv", "", rc)
        /\ IF rc # 0 THEN Finish("error") /\ UNCHANGED branches_before
           ELSE /\ branches_before' = ParseNames(GitBranchVV)
                /\ pc' = "fetch"
                /\ UNCHANGED outcome
    /\ UNCHANGED <<repo, current_branch, switched_branch, listing, branches_to_delete,
                   next_delete, deleted_branches, force, run, prior_clean, sync>>

\* Lines 68-70 with the return code tested as at lines 250-253.
FetchPruneFatal ==
    /\ pc = "fetch"
    /\ \E rc \in {0, 1} :
        /\ Issue("fetch -p", "", rc)
        /\ gone' = IF rc = 0 THEN FetchedGone ELSE gone
        /\ IF rc = 0 THEN pc' = "list_vv" /\ UNCHANGED outcome
           ELSE Finish("fetch_failed")
    /\ UNCHANGED <<branches, head, info, worktree, locals, force, run, prior_clean, sync>>

\* Lines 68-70: git fetch -p, check=False, return code ignored.
FetchPrune ==
    /\ pc = "fetch"
    /\ \E rc \in {0, 1} :
        /\ Issue("fetch -p", "", rc)
        /\ gone' = IF rc = 0 THEN FetchedGone ELSE gone
    /\ pc' = "list_vv"
    /\ UNCHANGED <<branches, head, info, worktree, locals, force, run, outcome,
                   prior_clean, sync>>

\* Lines 72-107: git branch -vv, check=False; an empty stdout ends the run,
\* otherwise the lines are classified.
ListAndClassify ==
    /\ pc = "list_vv"
    /\ \E rc \in {0, 1} :
        /\ Issue("branch -vv", "", rc)
        /\ listing' = IF rc = 0 THEN GitBranchVV ELSE <<>>
    /\ IF listing' = <<>>
       THEN Finish("no_branch_info") /\ UNCHANGED branches_to_delete
       ELSE /\ branches_to_delete' = Classify(listing', force)
            /\ pc' = "delete"
            /\ UNCHANGED outcome
    /\ UNCHANGED <<repo, current_branch, switched_branch, branches_before, next_delete,
                   deleted_branches, force, run, prior_clean, sync>>

\* Lines 110-113 with check=True: a refused deletion raises, caught at line 160.
DeleteBranchStoppingOnFailure ==
    /\ pc = "delete"
    /\ next_delete <= Len(branches_to_delete)
    /\ LET branch == branches_to_delete[next_delete]
       IN  \E rc \in {0, 1} :
            /\ rc = 0 => CanDelete(branch)
            /\ Issue("branch -D", branch, rc)
            /\ branches' = IF rc = 0 THEN branches \ {branch} ELSE branches
            /\ IF rc = 0
               THEN next_delete' = next_delete + 1 /\ UNCHANGED <<pc, outcome>>
               ELSE Finish("error") /\ UNCHANGED next_delete
    /\ UNCHANGED <<head, info, gone, worktree, current_branch, switched_branch, branches_before,
                   listing, branches_to_delete, deleted_branches, force, run,
                   prior_clean, sync>>

\* Lines 110-113: one iteration of the deletion loop, git branch -D branch.
DeleteBranch ==
    /\ pc = "delete"
    /\ next_delete <= Len(branches_to_delete)
    /\ LET branch == branches_to_delete[next_delete]
       IN  \E rc \in {0, 1} :
            /\ rc = 0 => CanDelete(branch)
            /\ Issue("branch -D", branch, rc)
            /\ branches' = IF rc = 0 THEN branches \ {branch} ELSE branches
    /\ next_delete' = next_delete + 1
    /\ UNCHANGED <<head, info, gone, worktree, current_branch, switched_branch, branches_before,
                   listing, branches_to_delete, deleted_branches, force, pc, run,
                   outcome, prior_clean, sync>>

\* Lines 115-126 (and the test of line 129): git branch -vv, check=True, and
\* the set difference.
ListAfter ==
    /\ pc = "delete"
    /\ next_delete > Len(branches_to_delete)
    /\ \E rc \in {0, 1} :
        /\ Issue("branch -vv", "", rc)
        /\ IF rc # 0 THEN Finish("error") /\ UNCHANGED deleted_branches
           ELSE /\ deleted_branches' = DeletedBranches(branches_before, ParseNames(GitBranchVV))
                /\ IF switched_branch
                   THEN pc' = "switch_back" /\ UNCHANGED outcome
                   ELSE Finish("completed")
    /\ UNCHANGED <<repo, current_branch, switched_branch, branches_before, listing,
                   branches_to_delete, next_delete, force, run, prior_clean, sync>>

\* Lines 129-139 without the test of line 131.
SwitchBackAlways ==
    /\ pc = "switch_back"
    /\ \E rc \in {0, 1} :
        /\ rc = 0 => CanCheckout(current_branch)
        /\ Issue("checkout", current_branch, rc)
        /\ head' = IF rc = 0 THEN current_branch ELSE head
    /\ Finish("completed")
    /\ UNCHANGED <<branches, info, gone, worktree, locals, force, run, prior_clean, sync>>

\* Lines 129-139: stay on main when the original branch was deleted,
\* otherwise git checkout current_branch.
SwitchBack ==
    /\ pc = "switch_back"
    /\ IF current_branch \in deleted_branches
       THEN UNCHANGED <<head, calls>>
       ELSE \E rc \in {0, 1} :
            /\ rc = 0 => CanCheckout(current_branch)
            /\ Issue("checkout", current_branch, rc)
            /\ head' = IF rc = 0 THEN current_branch ELSE head
    /\ Finish("completed")
    /\ UNCHANGED <<branches, info, gone, worktree, locals, force, run, prior_clean, sync>>

Failed(cmd) == \E i \in 1..Len(calls) : calls[i].cmd = cmd /\ calls[i].rc # 0

\* Lines 330-333: the command is run again with the same flag.
RunAgain ==
    /\ pc = "done"
    /\ run < MaxRuns
    /\ run' = run + 1
    /\ prior_clean' = (prior_clean /\ outcome = "completed"
                       /\ ~Failed("fetch -p") /\ ~Failed("branch -D"))
    /\ pc' = "verify_repo"
    /\ outcome' = "running"
    /\ calls' = <<>>
    /\ current_branch' = ""
    /\ switched_branch' = FALSE
    /\ branches_before' = {}
    /\ listing' = <<>>
    /\ branches_to_delete' = <<>>
    /\ next_delete' = 1
    /\ deleted_branches' = {}
    /\ UNCHANGED <<repo, force, sync>>

Next ==
    \/ VerifyRepo
    \/ GetCurrentBranch
    \/ CheckoutMain
    \/ ListBefore
    \/ FetchPrune
    \/ ListAndClassify
    \/ DeleteBranch
    \/ ListAfter
    \/ SwitchBack
    \/ RunAgain

Spec == Init /\ [][Next]_vars

----------------------------------------------------------------------------
(* git status --porcelain: one line "XY path" per changed path.            *)

\* Largest number of lines of a status text.
MaxStatusLines == 2

\* The XY codes of unmerged paths (git-status, short format): both deleted,
\* added by us, deleted by them, added by them, deleted by us, both added,
\* both modified.
UnmergedCodes == {"DD", "AU", "UD", "UA", "DU", "AA", "UU"}

\* Codes of paths that are changed, staged or untracked, not unmerged.
OtherCodes == {" M", "M ", "??"}

StatusLines ==
    {<<xy, " ", "a.txt">> : xy \in UnmergedCodes \cup OtherCodes}
    \cup {<<"M ", " ", "docs/", "UU", ".md">>}

StatusTexts == UNION {[1..n -> StatusLines] : n \in 0..MaxStatusLines}

\* pattern in result_status.stdout
InText(text, pattern) == \E i \in 1..Len(text) : Contains(text[i], pattern)

\* The test of line 288.
ConflictDetected(text) ==
    InText(text, "UU") \/ InText(text, "AA") \/ InText(text, "DD")

----------------------------------------------------------------------------
(* switch_to_main()                                                        *)

InitSync ==
    /\ branches = Names
    /\ head \in AllNames
    /\ info = [b \in AllNames |-> NoInfo]
    /\ gone = {}
    /\ worktree \in StatusTexts
    /\ force = FALSE
    /\ pc = "sync_verify_repo"
    /\ NoLocals
    /\ calls = <<>>
    /\ run = 1
    /\ outcome = "running"
    /\ prior_clean = TRUE
    /\ result_status = <<>>
    /\ returned = <<>>

\* return code: the stage the function ended in, and the value returned.
Return(stage, code) ==
    /\ pc' = "done"
    /\ outcome' = stage
    /\ returned' = Append(returned, code)

cleanup == <<force, switched_branch, branches_before, listing, branches_to_delete,
             next_delete, deleted_branches, run, prior_clean>>

\* Lines 233-239: git rev-parse --git-dir, check=False.
SyncVerifyRepo ==
    /\ pc = "sync_verify_repo"
    /\ \E rc \in {0, 1} :
        /\ Issue("rev-parse --git-dir", "", rc)
        /\ IF rc # 0 THEN Return("NotARepo", 1)
           ELSE pc' = "sync_get_current" /\ UNCHANGED <<outcome, returned>>
    /\ UNCHANGED <<repo, cleanup, current_branch, result_status>>

\* Lines 241-245: git rev-parse --abbrev-ref HEAD, check=True, caught at line 303.
SyncGetCurrentBranch ==
    /\ pc = "sync_get_current"
    /\ \E rc \in {0, 1} :
        /\ Issue("rev-parse --abbrev-ref HEAD", "", rc)
        /\ IF rc # 0 THEN Return("Error", 1) /\ UNCHANGED current_branch
           ELSE /\ current_branch' = head
                /\ pc' = "sync_fetch"
                /\ UNCHANGED <<outcome, returned>>
    /\ UNCHANGED <<repo, cleanup, result_status>>

\* Lines 247-254 with the return code ignored, as at line 70.
SyncFetchTolerant ==
    /\ pc = "sync_fetch"
    /\ \E rc \in {0, 1} : Issue("fetch -p", "", rc)
    /\ pc' = "sync_status"
    /\ UNCHANGED <<repo, cleanup, current_branch, result_status, outcome, returned>>

\* Lines 247-254: git fetch -p; a failure ends the function.
SyncFetch ==
    /\ pc = "sync_fetch"
    /\ \E rc \in {0, 1} :
        /\ Issue("fetch -p", "", rc)
        /\ IF rc # 0 THEN Return("FetchFailed", 1)
           ELSE pc' = "sync_status" /\ UNCHANGED <<outcome, returned>>
    /\ UNCHANGED <<repo, cleanup, current_branch, result_status>>

\* Lines 256-267 without the test of line 267: main is always checked out.
SyncCheckCleanAlwaysCheckout ==
    /\ pc = "sync_status"
    /\ \E rc \in {0, 1} :
        /\ IssueOut("status --porcelain", "", rc, IF rc = 0 THEN worktree ELSE <<>>)
        /\ IF rc # 0 THEN Return("Error", 1) /\ UNCHANGED result_status
           ELSE /\ result_status' = worktree
                /\ IF worktree # <<>> THEN Return("DirtyWorkingTree", 1)
                   ELSE pc' = "sync_checkout" /\ UNCHANGED <<outcome, returned>>
    /\ UNCHANGED <<repo, cleanup, current_branch>>

\* Lines 256-264 without the return of line 264.
SyncCheckCleanContinuing ==
    /\ pc = "sync_status"
    /\ \E rc \in {0, 1} :
        /\ IssueOut("status --porcelain", "", rc, IF rc = 0 THEN worktree ELSE <<>>)
        /\ IF rc # 0 THEN Return("Error", 1) /\ UNCHANGED result_status
           ELSE /\ result_status' = worktree
                /\ pc' = IF current_branch # TRUNK THEN "sync_checkout" ELSE "sync_pull"
                /\ UNCHANGED <<outcome, returned>>
    /\ UNCHANGED <<repo, cleanup, current_branch>>

\* Lines 256-264 (and the test of line 267): git status --porcelain,
\* check=True; any output ends the function.
SyncCheckClean ==
    /\ pc = "sync_status"
    /\ \E rc \in {0, 1} :
        /\ IssueOut("status --porcelain", "", rc, IF rc = 0 THEN worktree ELSE <<>>)
        /\ IF rc # 0 THEN Return("Error", 1) /\ UNCHANGED result_status
           ELSE /\ result_status' = worktree
                /\ IF worktree # <<>> THEN Return("DirtyWorkingTree", 1)
                   ELSE /\ pc' = IF current_branch # TRUNK THEN "sync_checkout"
                                 ELSE "sync_pull"
                        /\ UNCHANGED <<outcome, returned>>
    /\ UNCHANGED <<repo, cleanup, current_branch>>

\* Lines 267-274 without the test of line 270.
SyncCheckoutIgnoringFailure ==
    /\ pc = "sync_checkout"
    /\ \E rc \in {0, 1} :
        /\ rc = 0 => CanCheckout(TRUNK)
        /\ Issue("checkout", TRUNK, rc)
        /\ head' = IF rc = 0 THEN TRUNK ELSE head
    /\ pc' = "sync_pull"
    /\ UNCHANGED <<branches, info, gone, worktree, cleanup, current_branch,
                   result_status, outcome, returned>>

\* Lines 267-274: git checkout main.
SyncCheckout ==
    /\ pc = "sync_checkout"
    /\ \E rc \in {0, 1} :
        /\ rc = 0 => CanCheckout(TRUNK)
        /\ Issue("checkout", TRUNK, rc)
        /\ IF rc # 0 THEN Return("CheckoutFailed", 1) /\ UNCHANGED head
           ELSE /\ head' = TRUNK
                /\ pc' = "sync_pull"
                /\ UNCHANGED <<outcome, returned>>
    /\ UNCHANGED <<branches, info, gone, worktree, cleanup, current_branch,
                   result_status>>

\* Lines 278-282 and 299-301: git pull; a failed pull may leave any status.
SyncPull ==
    /\ pc = "sync_pull"
    /\ \E rc \in {0, 1} :
        /\ Issue("pull", "", rc)
        /\ IF rc # 0
           THEN /\ worktree' \in StatusTexts
                /\ pc' = "sync_conflict_check"
                /\ UNCHANGED <<outcome, returned>>
           ELSE Return("Success", 0) /\ UNCHANGED worktree
    /\ UNCHANGED <<branches, head, info, gone, cleanup, current_branch, result_status>>

\* Lines 283-297: git status --porcelain, check=True, and the conflict test.
SyncConflictCheck ==
    /\ pc = "sync_conflict_check"
    /\ \E rc \in {0, 1} :
        /\ IssueOut("status --porcelain", "", rc, IF rc = 0 THEN worktree ELSE <<>>)
        /\ IF rc # 0 THEN Return("Error", 1) /\ UNCHANGED result_status
           ELSE /\ result_status' = worktree
                /\ IF ConflictDetected(worktree) THEN Return("MergeConflict", 1)
                   ELSE Return("PullFailed", 1)
    /\ UNCHANGED <<repo, cleanup, current_branch>>

NextSync ==
    \/ SyncVerifyRepo
    \/ SyncGetCurrentBranch
    \/ SyncFetch
    \/ SyncCheckClean
    \/ SyncCheckout
    \/ SyncPull
    \/ SyncConflictCheck

SpecSync == InitSync /\ [][NextSync]_vars

----------------------------------------------------------------------------
(* Properties of cleanup_branches.                                         *)

\* The branch a line of the listing describes, and the lines of the
\* branches that are not checked out.
LineBranch(line) == line[2]

MarkedCurrent(line) == line[1] = "*"

Classified == listing # <<>>

Planned == Range(branches_to_delete)

OtherBranches == {LineBranch(listing[i]) : i \in {j \in 1..Len(listing) : ~MarkedCurrent(listing[j])}}

Tracked(b) == info[b].remote # "none"

Succeeded(cmd) == \E k \in 1..Len(calls) : calls[k].cmd = cmd /\ calls[k].rc = 0

Invoked(cmd) == \E k \in 1..Len(calls) : calls[k].cmd = cmd

DeleteIssued(b) == \E k \in 1..Len(calls) : calls[k].cmd = "branch -D" /\ calls[k].arg = b

\* C1: the branch marked current in the classified listing is never in the
\* deletion plan, and during the deletion pass no git branch -D has been
\* issued for the checked-out branch.
CurrentNeverPlanned ==
    /\ \A i \in 1..Len(listing) :
        MarkedCurrent(listing[i]) => LineBranch(listing[i]) \notin Planned
    /\ pc = "delete" => head \notin Planned /\ ~DeleteIssued(head)

\* C1 witness: the checked-out branch has no remote tracking, so it would
\* qualify for deletion, and the deletion pass has deleted another branch.
CurrentNeverPlannedWitness ==
    /\ pc = "delete"
    /\ info[head].remote = "none"
    /\ \E b \in Names : DeleteIssued(b) /\ b \notin branches

\* C2: a branch that tracks a remote branch (of any remote) not marked gone
\* is never in the deletion plan, whatever force is.
LiveTrackedNeverPlanned ==
    Classified =>
        \A b \in OtherBranches : Tracked(b) /\ b \notin gone => b \notin Planned

\* C3: a branch that is not checked out and whose remote-tracking reference
\* is marked gone is in the deletion plan exactly when force is true.
GonePlannedIffForce ==
    Classified =>
        \A b \in OtherBranches : Tracked(b) /\ b \in gone => (b \in Planned <=> force)

\* C4: a branch that is not checked out and tracks no remote branch is in the
\* deletion plan, whatever force is.
UntrackedAlwaysPlanned ==
    Classified =>
        \A b \in OtherBranches : ~Tracked(b) => b \in Planned

\* C5: as documented, without force only branches whose remote is gone are
\* planned and never a local-only branch; with force both kinds are planned.
\* Stated for the branches that track origin or nothing and whose tip
\* subject quotes no annotation.
DocumentedForcePolicy ==
    Classified =>
        \A b \in OtherBranches :
            info[b].remote # "upstream" /\ info[b].subject = "plain" =>
                /\ ~force /\ b \in Planned => Tracked(b) /\ b \in gone
                /\ ~Tracked(b) => (b \in Planned <=> force)
                /\ force /\ Tracked(b) /\ b \in gone => b \in Planned

\* C9: when the run switched from another branch to main and that branch is
\* among deleted_branches, no checkout of it is issued and the run ends on main.
StaysOnTrunkWhenOriginalDeleted ==
    switched_branch /\ current_branch \in deleted_branches =>
        /\ \A k \in 1..Len(calls) :
            calls[k].cmd = "checkout" => calls[k].arg # current_branch
        /\ pc = "done" => head = TRUNK

\* C9 witness: a completed run that left a branch other than main, deleted it
\* and reported it.
StaysOnTrunkWitness ==
    /\ pc = "done"
    /\ outcome = "completed"
    /\ switched_branch
    /\ current_branch # TRUNK
    /\ current_branch \in deleted_branches
    /\ current_branch \notin branches

DeleteSucceeded(b) ==
    \E k \in 1..Len(calls) :
        calls[k].cmd = "branch -D" /\ calls[k].arg = b /\ calls[k].rc = 0

\* C11: git branch -D is issued only for names of the deletion plan, and
\* deleted_branches holds only planned branches whose deletion succeeded; it
\* is empty when the plan is empty.
OnlyPlannedDeleted ==
    /\ \A k \in 1..Len(calls) : calls[k].cmd = "branch -D" => calls[k].arg \in Planned
    /\ \A b \in deleted_branches : b \in Planned /\ DeleteSucceeded(b)
    /\ Planned = {} => deleted_branches = {}

\* C11 witness: a completed run whose plan held two branches, one deleted
\* and reported, the other refused by git.
OnlyPlannedDeletedWitness ==
    /\ pc = "done"
    /\ outcome = "completed"
    /\ Len(branches_to_delete) = 2
    /\ deleted_branches # {}
    /\ Failed("branch -D")

\* C12: a run that switched to main and did not delete the original branch
\* issues a checkout of the original branch before it ends.
SwitchBackAlwaysAttempted ==
    pc = "done" /\ switched_branch /\ current_branch \in branches =>
        \E k \in 1..Len(calls) :
            calls[k].cmd = "checkout" /\ calls[k].arg = current_branch

\* C13: a failed checkout of main ends the run at once: no fetch and no
\* git branch -D is issued, and no step up to it changes the branches or
\* the checked-out branch.
FailedCheckoutOfTrunk ==
    \E k \in 1..Len(calls) :
        calls[k].cmd = "checkout" /\ calls[k].arg = TRUNK /\ calls[k].rc # 0

\* A step before the switch to main has succeeded leaves the branches and
\* the checked-out branch as they are.
KeptUntilSwitched ==
    (pc \in {"verify_repo", "get_current", "checkout_main"} /\ pc' # "list_before")
        => (branches' = branches /\ head' = head)

FailedCheckoutAborts ==
    /\ [](FailedCheckoutOfTrunk =>
            /\ pc = "done"
            /\ outcome = "checkout_failed"
            /\ ~Invoked("fetch -p")
            /\ ~Invoked("branch -D")
            /\ head = current_branch
            /\ head # TRUNK)
    /\ [][KeptUntilSwitched]_vars

\* C13 witness: a run started on another branch than main, with branches to
\* delete, has ended on the failed checkout.
FailedCheckoutWitness ==
    /\ pc = "done"
    /\ outcome = "checkout_failed"
    /\ FailedCheckoutOfTrunk
    /\ \E b \in branches : b # head /\ ~Tracked(b)

IsDelete(call) == call.cmd = "branch -D"

\* The names git branch -D was issued for, in order.
DeleteAttempts ==
    LET deletes == SelectSeq(calls, IsDelete)
    IN  [i \in 1..Len(deletes) |-> deletes[i].arg]

\* C14: the git branch -D commands issued are the plan's entries, once each
\* and in plan order, whatever their return codes; once the listing is
\* classified the pass runs to the end of the plan, and a run that ends on
\* an exception ends on a listing, never on a deletion.
EveryPlannedDeleteAttempted ==
    /\ DeleteAttempts = SubSeq(branches_to_delete, 1, next_delete - 1)
    /\ Classified /\ pc # "delete" => next_delete = Len(branches_to_delete) + 1
    /\ Classified /\ outcome = "error" => calls[Len(calls)].cmd = "branch -vv"

\* C14 witness: a completed run whose first deletion was refused and whose
\* second deletion succeeded.
EveryPlannedDeleteWitness ==
    /\ pc = "done"
    /\ outcome = "completed"
    /\ Len(branches_to_delete) = 2
    /\ ~DeleteSucceeded(branches_to_delete[1])
    /\ DeleteSucceeded(branches_to_delete[2])

\* C16: whatever git fetch -p returns, the next command is the listing of
\* line 75; when that listing prints the branches they are classified, and
\* the run then issues git branch -D for every planned branch.
FetchFailureTolerated ==
    /\ \A k \in 1..Len(calls) :
        calls[k].cmd = "fetch -p" =>
            IF k = Len(calls) THEN pc = "list_vv"
            ELSE /\ calls[k + 1].cmd = "branch -vv"
                 /\ calls[k + 1].rc = 0 =>
                        /\ Classified
                        /\ pc # "done" \/ outcome \in {"completed", "error"}
    /\ Classified /\ pc # "delete" => \A b \in Planned : DeleteIssued(b)

\* C16 witness: a completed run whose fetch failed and which deleted a branch.
FetchFailureWitness ==
    /\ pc = "done"
    /\ outcome = "completed"
    /\ Failed("fetch -p")
    /\ \E b \in Planned : DeleteSucceeded(b)

SwitchedToTrunk ==
    \E k \in 1..Len(calls) :
        calls[k].cmd = "checkout" /\ calls[k].arg = TRUNK /\ calls[k].rc = 0

\* C18: main is never in the deletion plan and git branch -D is never issued
\* for it; during the deletion pass main is the checked-out branch, the run
\* having started on main or checked it out.
TrunkNeverDeleted ==
    /\ TRUNK \notin Planned
    /\ ~DeleteIssued(TRUNK)
    /\ pc = "delete" => head = TRUNK
    /\ Invoked("branch -D") => current_branch = TRUNK \/ (switched_branch /\ SwitchedToTrunk)

\* C18 witness: a run that left another branch for a main without remote
\* tracking is deleting branches.
TrunkNeverDeletedWitness ==
    /\ pc = "delete"
    /\ switched_branch
    /\ info[TRUNK].remote = "none"
    /\ Invoked("branch -D")

----------------------------------------------------------------------------
(* Properties of switch_to_main.                                           *)

StatusQuery(k) == calls[k].cmd = "status --porcelain" /\ calls[k].rc = 0

\* C6: a status query that reports an entry before any pull ends the run
\* with DirtyWorkingTree and return value 1, without checkout or pull; every
\* checkout and every pull follows a status query that reported nothing.
DirtyTreeStopsSync ==
    /\ \A k \in 1..Len(calls) :
        calls[k].cmd \in {"checkout", "pull"} =>
            \E j \in 1..(k - 1) : StatusQuery(j) /\ calls[j].stdout = <<>>
    /\ \A j \in 1..Len(calls) :
        (StatusQuery(j) /\ calls[j].stdout # <<>>
            /\ \A k \in 1..(j - 1) : calls[k].cmd # "pull") =>
            /\ pc = "done"
            /\ outcome = "DirtyWorkingTree"
            /\ returned = <<1>>
            /\ ~Invoked("checkout")
            /\ ~Invoked("pull")

\* C6 witness: a run started on another branch than main with uncommitted
\* changes has ended.
DirtyTreeWitness ==
    /\ pc = "done"
    /\ outcome = "DirtyWorkingTree"
    /\ current_branch # TRUNK
    /\ result_status # <<>>

\* An unmerged path: a status line whose XY code is one of the unmerged codes.
HasUnmergedPath(text) == \E i \in 1..Len(text) : text[i][1] \in UnmergedCodes

\* C7: after a failed pull the stage is MergeConflict when the re-queried
\* status holds an unmerged path and PullFailed when it holds none.
ConflictIffUnmergedPath ==
    pc = "done" /\ outcome \in {"MergeConflict", "PullFailed"} =>
        (outcome = "MergeConflict" <=> HasUnmergedPath(result_status))

\* C8: the function returns once; it returns 0 exactly when the repository
\* check, the fetch, the clean-status check, the checkout of main (when not
\* on main) and the pull all succeeded, and 1 otherwise.
AllStagesSucceeded ==
    /\ Succeeded("rev-parse --git-dir")
    /\ Succeeded("rev-parse --abbrev-ref HEAD")
    /\ Succeeded("fetch -p")
    /\ \E j \in 1..Len(calls) : StatusQuery(j) /\ calls[j].stdout = <<>>
    /\ current_branch = TRUNK \/ Succeeded("checkout")
    /\ Succeeded("pull")

SingleExitCode ==
    /\ pc # "done" => returned = <<>>
    /\ pc = "done" =>
        /\ Len(returned) = 1
        /\ returned[1] \in {0, 1}
        /\ returned[1] = 0 <=> AllStagesSucceeded

\* C8 witness: a run that checked out main and pulled has returned 0.
SingleExitCodeWitness ==
    /\ pc = "done"
    /\ returned = <<0>>
    /\ current_branch # TRUNK
    /\ Succeeded("checkout")

\* The place of a command in the order of the stages of switch_to_main; the
\* status query that follows the pull comes last.
StageAt(k) ==
    LET cmd == calls[k].cmd
    IN  CASE cmd = "rev-parse --git-dir" -> 1
          [] cmd = "rev-parse --abbrev-ref HEAD" -> 2
          [] cmd = "fetch -p" -> 3
          [] cmd = "status --porcelain" ->
                IF \E i \in 1..(k - 1) : calls[i].cmd = "pull" THEN 7 ELSE 4
          [] cmd = "checkout" -> 5
          [] cmd = "pull" -> 6
          [] OTHER -> 0

\* C15: the commands run in the order repository check, fetch, status,
\* checkout, pull, each at most once, the checkout only when not on main;
\* a failed repository check, fetch or checkout is the last command of the run.
FailsFastInOrder ==
    /\ \A i \in 1..Len(calls) : \A j \in (i + 1)..Len(calls) : StageAt(i) < StageAt(j)
    /\ \A k \in 1..Len(calls) : StageAt(k) > 0
    /\ Invoked("checkout") => current_branch # TRUNK
    /\ \A k \in 1..Len(calls) :
        calls[k].cmd \in {"rev-parse --git-dir", "fetch -p", "checkout"} /\ calls[k].rc # 0
            => k = Len(calls) /\ pc = "done" /\ returned = <<1>>

\* C15 witness: a run that fetched, found the tree clean and failed to check
\* out main has ended.
FailsFastWitness ==
    /\ pc = "done"
    /\ outcome = "CheckoutFailed"
    /\ Len(calls) = 5
    /\ calls[5].cmd = "checkout"
    /\ calls[5].rc # 0

\* C17: a run that read main as the current branch issues no checkout and
\* stays on main, and after the clean status query it goes on to the pull.
OnTrunkSkipsCheckout ==
    current_branch = TRUNK =>
        /\ ~Invoked("checkout")
        /\ head = TRUNK
        /\ (\E j \in 1..Len(calls) : StatusQuery(j) /\ calls[j].stdout = <<>>)
            => pc = "sync_pull" \/ Invoked("pull")

\* C17 witness: a run started on main has pulled and returned 0.
OnTrunkWitness ==
    /\ pc = "done"
    /\ current_branch = TRUNK
    /\ Succeeded("pull")
    /\ returned = <<0>>

\* C19: the pull is reached and issued only with main checked out, the run
\* having read main as the current branch or checked it out.
PullOnlyOnTrunk ==
    pc = "sync_pull" \/ Invoked("pull") =>
        /\ head = TRUNK
        /\ current_branch = TRUNK \/ SwitchedToTrunk

\* C19 witness: a run started on another branch than main has pulled.
PullOnlyOnTrunkWitness ==
    /\ Invoked("pull")
    /\ current_branch # TRUNK
    /\ SwitchedToTrunk

====
